---- MODULE Spec2Model ----
(***************************************************************************)
(* Model of sumgen.py: the transfer of security-return data from a         *)
(* portfolio review worksheet to fixed cells of a summary worksheet.       *)
(*                                                                         *)
(* Strings are sequences of character codes (ord), so that lower(),       *)
(* upper(), chr(ord(c) + k) and str(row) are computed, not assumed.        *)
(* A cell value is a tagged record [type, text, num]: type is the Python   *)
(* type of the value ("str", "int", "float", "bool", "NoneType"), text    *)
(* the characters of a str, num the numeric value of an int, float or bool.*)
(* The summary worksheet is the mapping the code subscripts: coordinate    *)
(* string |-> value.                                                       *)
(***************************************************************************)
EXTENDS Integers, Sequences, FiniteSets, TLC

VARIABLES
    pc,                 \* position of the script (or of the function harness)
    disk,               \* workbook files: path |-> [status, rows]
    settings,           \* settings.json, as loaded at lines 210-222
    stdin,              \* the lines the user has still to type
    order,              \* "script": the calls of a phase in the order of the
                        \* script; "any": in any order
    calls,              \* the groups whose call of the current phase is done
    typo,               \* read_workbook: the loop flag
    printed,            \* number of 'File does not exist.' lines printed
    workbook_filename,  \* read_workbook: the filename of the last prompt
    review_workbook,    \* the loaded review workbook: [path, rows]
    summary_workbook,   \* the loaded summary workbook: [path, rows]
    summary_workbook_filename,
    review_worksheet,   \* tuple of rows of the review worksheet
    securities,         \* group |-> list of SecurityReturn objects
    summary_worksheet,  \* the active sheet of summary_workbook: coordinate |-> value
    saved,              \* the files written by save(): <<>> or <<[path, cells]>>
    error,              \* the exception that ended the run, "" if none
    nextId,             \* identity of the next SecurityReturn object created
    args,               \* harness: the arguments of the function under check
    ret                 \* harness: what the function returned or raised

vars == <<pc, disk, settings, stdin, order, calls, typo, printed, workbook_filename,
          review_workbook, summary_workbook, summary_workbook_filename,
          review_worksheet, securities, summary_worksheet, saved, error,
          nextId, args, ret>>

----------------------------------------------------------------------------
(* Python values *)

PyStr(s) == [type |-> "str", text |-> s, num |-> 0]
PyInt(n) == [type |-> "int", text |-> <<>>, num |-> n]
PyFloat(n) == [type |-> "float", text |-> <<>>, num |-> n]
PyBool(b) == [type |-> "bool", text |-> <<>>, num |-> IF b THEN 1 ELSE 0]
PyNone == [type |-> "NoneType", text |-> <<>>, num |-> 0]

NumericTypes == {"int", "float", "bool"}

\* Python ==: numbers (bool included) compare by value, strings by text,
\* PyNone equals PyNone only, values of unrelated types are unequal.
PyEq(a, b) ==
    IF a.type \in NumericTypes /\ b.type \in NumericTypes THEN a.num = b.num
    ELSE IF a.type = "str" /\ b.type = "str" THEN a.text = b.text
    ELSE a.type = b.type

\* str.lower() and str.upper() on ASCII text
Lower(s) == [i \in 1..Len(s) |-> IF s[i] \in 65..90 THEN s[i] + 32 ELSE s[i]]
Upper(s) == [i \in 1..Len(s) |-> IF s[i] \in 97..122 THEN s[i] - 32 ELSE s[i]]

\* str(n) for n >= 0: the decimal digits of n
RECURSIVE DecStr(_)
DecStr(n) == IF n < 10 THEN <<48 + n>> ELSE Append(DecStr(n \div 10), 48 + (n % 10))

\* chr(ord(column) + k) for a one-character column
ChrPlus(column, k) == <<column[1] + k>>

\* worksheet[column + str(row)]
Coordinate(column, row) == column \o DecStr(row)

\* F applied to the value of v, v being evaluated once
Bind(v, F(_)) == CHOOSE y \in {F(x) : x \in {v}} : TRUE

\* worksheet[coordinate].value = value
SetCell(ws, coordinate, value) ==
    Bind(ws, LAMBDA w : (coordinate :> value) @@ w)

----------------------------------------------------------------------------
(* class SecurityReturn *)

Metrics == <<"year_to_date", "month_to_date", "quarter_to_date",
             "one_year", "three_year", "five_year">>

\* SecurityReturn(name): a new object, every return field at its default 0.0
SecurityReturn(id, name) ==
    [id |-> id, name |-> name,
     year_to_date |-> PyFloat(0), month_to_date |-> PyFloat(0),
     quarter_to_date |-> PyFloat(0), one_year |-> PyFloat(0),
     three_year |-> PyFloat(0), five_year |-> PyFloat(0)]

----------------------------------------------------------------------------
(* get_security_info *)

\* row[c].value, columns zero-indexed
CellValue(row, c) == row[c + 1]

\* all_names: the key column, a str lower-cased, any other value as it is
AllNames(worksheet, name_column) ==
    [i \in 1..Len(worksheet) |->
        IF CellValue(worksheet[i], name_column).type = "str"
        THEN PyStr(Lower(CellValue(worksheet[i], name_column).text))
        ELSE CellValue(worksheet[i], name_column)]

\* Faulty variant of TupleIndex: the last equal element instead of the first.
TupleIndex_last(t, x) ==
    IF \E i \in 1..Len(t) : PyEq(t[i], x)
    THEN CHOOSE i \in 1..Len(t) :
            PyEq(t[i], x) /\ \A j \in (i + 1)..Len(t) : ~PyEq(t[j], x)
    ELSE 0

\* tuple.index(x): the first index (one-based here) of an element equal to
\* x, 0 standing for the ValueError raised when there is none
TupleIndex(t, x) ==
    IF \E i \in 1..Len(t) : PyEq(t[i], x)
    THEN CHOOSE i \in 1..Len(t) :
            PyEq(t[i], x) /\ \A j \in 1..(i - 1) : ~PyEq(t[j], x)
    ELSE 0

\* Faulty variant of ReturnValue: isinstance(value, (int, float)), which a
\* bool passes.
ReturnValue_isinstance(value) ==
    IF value.type \in {"int", "float", "bool"} THEN value ELSE PyFloat(0)

\* value if type(value) is int or type(value) is float else 0.0
ReturnValue(value) ==
    IF value.type = "int" \/ value.type = "float" THEN value ELSE PyFloat(0)

\* The body of the loop over names: the object built for one name whose row
\* was found.
FillSecurity(worksheet, row, start_column, id, name) ==
    [SecurityReturn(id, Upper(name)) EXCEPT
     !.year_to_date    = ReturnValue(CellValue(worksheet[row], start_column)),
     !.month_to_date   = ReturnValue(CellValue(worksheet[row], start_column + 1)),
     !.quarter_to_date = ReturnValue(CellValue(worksheet[row], start_column + 2)),
     !.one_year        = ReturnValue(CellValue(worksheet[row], start_column + 3)),
     !.three_year      = ReturnValue(CellValue(worksheet[row], start_column + 4)),
     !.five_year       = ReturnValue(CellValue(worksheet[row], start_column + 5))]

\* Faulty variant of get_security_info: a name that is not found is skipped.
get_security_info_skip(worksheet, names, name_column, start_column, id0) ==
    LET all_names == AllNames(worksheet, name_column)
        found == SelectSeq([i \in 1..Len(names) |-> i],
                           LAMBDA i : TupleIndex(all_names, PyStr(Lower(names[i]))) # 0)
    IN [raised |-> "",
        value |-> [k \in 1..Len(found) |->
                     FillSecurity(worksheet,
                                  TupleIndex(all_names, PyStr(Lower(names[found[k]]))),
                                  start_column, id0 + k, names[found[k]])]]

\* get_security_info: [raised, value]. raised is "" and value the list of
\* objects, identities id0 + 1, id0 + 2, ..., or raised is "ValueError"
\* (the first name that tuple.index does not find) and nothing is returned.
get_security_info(worksheet, names, name_column, start_column, id0) ==
    LET all_names == AllNames(worksheet, name_column)
        RowOf(i) == TupleIndex(all_names, PyStr(Lower(names[i])))
    IN IF \E i \in 1..Len(names) : RowOf(i) = 0
       THEN [raised |-> "ValueError", value |-> <<>>]
       ELSE [raised |-> "",
             value |-> [i \in 1..Len(names) |->
                          FillSecurity(worksheet, RowOf(i), start_column,
                                       id0 + i, names[i])]]

----------------------------------------------------------------------------
(* write_securities *)

\* Faulty variant of ListIndex: objects compared by their contents (as if
\* SecurityReturn defined __eq__ over its fields) instead of by identity.
ListIndex_by_value(list, x) ==
    CHOOSE i \in 1..Len(list) :
        /\ [list[i] EXCEPT !.id = 0] = [x EXCEPT !.id = 0]
        /\ \A j \in 1..(i - 1) : [list[j] EXCEPT !.id = 0] # [x EXCEPT !.id = 0]

\* list.index(x) for an x of the list: SecurityReturn defines no __eq__, so
\* == is identity, and the index is that of the object itself.
ListIndex(list, x) ==
    CHOOSE i \in 1..Len(list) :
        list[i].id = x.id /\ \A j \in 1..(i - 1) : list[j].id # x.id

\* lines 128-136: the six fields of one security, down one column
WriteSecurity(ws, security, position) ==
    LET row == position.row
        column == position.column
        Put(w, k) == SetCell(w, Coordinate(column, row + k - 1), security[Metrics[k]])
    IN Put(Put(Put(Put(Put(Put(ws, 1), 2), 3), 4), 5), 6)

\* the loop of write_securities from its i-th iteration on; [raised, ws]
RECURSIVE WriteSecuritiesFrom(_, _, _, _)
WriteSecuritiesFrom(ws, securities_, positions, i) ==
    IF i > Len(securities_) THEN [raised |-> "", ws |-> ws]
    ELSE LET k == ListIndex(securities_, securities_[i])
         IN IF k > Len(positions)
            THEN [raised |-> "IndexError", ws |-> ws]
            ELSE Bind(WriteSecurity(ws, securities_[i], positions[k]),
                      LAMBDA w : WriteSecuritiesFrom(w, securities_, positions, i + 1))

write_securities(ws, securities_, positions) ==
    WriteSecuritiesFrom(ws, securities_, positions, 1)

----------------------------------------------------------------------------
(* write_comparison *)

\* x put into a list sorted by metric m, behind every element whose key is
\* not greater: the step of a stable ascending sort
Insert(sorted, x, m) ==
    LET n == Cardinality({i \in 1..Len(sorted) : sorted[i][Metrics[m]].num <= x[Metrics[m]].num})
    IN SubSeq(sorted, 1, n) \o <<x>> \o SubSeq(sorted, n + 1, Len(sorted))

RECURSIVE SortFrom(_, _, _, _)
SortFrom(sorted, list, m, i) ==
    IF i > Len(list) THEN sorted
    ELSE Bind(Insert(sorted, list[i], m), LAMBDA s : SortFrom(s, list, m, i + 1))

\* securities.sort(key=lambda security: security.<metric m>): list.sort is
\* stable and ascending
Sort(list, m) == SortFrom(<<>>, list, m, 1)

\* the inner function write: the name at (column, row), the attribute in
\* the column after it
write(ws, name, attribute, row, column) ==
    SetCell(SetCell(ws, Coordinate(column, row), PyStr(name)),
            Coordinate(ChrPlus(column, 1), row), attribute)

\* Faulty variant of WorstColumn: wraps behind Z.
WorstColumn_wrap(column) == <<65 + ((column[1] + 2 - 65) % 26)>>

\* chr(ord(column) + 2), the column of the worst security's name
WorstColumn(column) == ChrPlus(column, 2)

\* Faulty variant of CompareSorted: best and worst exchanged.
CompareSorted_swapped(ws, sorted, position, m) ==
    LET row == position.row + m - 1
        best == sorted[1]
        worst == sorted[Len(sorted)]
    IN [ws |-> write(write(ws, best.name, best[Metrics[m]], row, position.column),
                     worst.name, worst[Metrics[m]], row, WorstColumn(position.column)),
        securities |-> sorted]

\* The two write calls of a block of write_comparison (metric m of 1..6),
\* the list having been sorted: securities[len - 1] as best and
\* securities[0] as worst on row position.row + m - 1.
CompareSorted(ws, sorted, position, m) ==
    LET row == position.row + m - 1
        best == sorted[Len(sorted)]
        worst == sorted[1]
    IN [ws |-> write(write(ws, best.name, best[Metrics[m]], row, position.column),
                     worst.name, worst[Metrics[m]], row, WorstColumn(position.column)),
        securities |-> sorted]

\* Faulty variant of CompareMetric: the list is sorted, but not in place, so
\* the next metric starts from the order given.
CompareMetric_not_in_place(ws, list, position, m) ==
    [Bind(Sort(list, m), LAMBDA sorted : CompareSorted(ws, sorted, position, m))
        EXCEPT !.securities = list]

\* One of the six blocks of write_comparison on a non-empty list: the sort
\* in place, then the two write calls.
CompareMetric(ws, list, position, m) ==
    Bind(Sort(list, m), LAMBDA sorted : CompareSorted(ws, sorted, position, m))

RECURSIVE WriteComparisonFrom(_, _, _, _)
WriteComparisonFrom(ws, list, position, m) ==
    IF m > Len(Metrics) THEN [raised |-> "", ws |-> ws, securities |-> list]
    ELSE Bind(CompareMetric(ws, list, position, m),
              LAMBDA r : WriteComparisonFrom(r.ws, r.securities, position, m + 1))

\* write_comparison: [raised, ws, securities], securities being the list as
\* the in-place sorts leave it. On an empty list securities[len - 1] raises
\* IndexError before anything is written.
write_comparison(ws, securities_, position) ==
    IF Len(securities_) = 0
    THEN [raised |-> "IndexError", ws |-> ws, securities |-> securities_]
    ELSE WriteComparisonFrom(ws, securities_, position, 1)

----------------------------------------------------------------------------
(* read_workbook *)

\* the '.xlsx' appended to what the user types
Xlsx == <<46, 120, 108, 115, 120>>

\* Faulty variant of LoadOutcome: a missing file ends the run like any other
\* failure.
LoadOutcome_no_retry(files, path) ==
    IF path \in DOMAIN files /\ files[path].status = "ok" THEN "loaded"
    ELSE "raise"

\* load_workbook inside the try of read_workbook: "loaded", "retry" when
\* FileNotFoundError is caught (the path is no file), "raise" for any other
\* exception (a file that is no workbook), which no handler catches.
LoadOutcome(files, path) ==
    IF path \notin DOMAIN files THEN "retry"
    ELSE IF files[path].status = "ok" THEN "loaded"
    ELSE "raise"

\* the cells of the active sheet of a workbook whose rows are given, by
\* coordinate: column letters from A, rows from 1
CellsOf(rows) ==
    LET places == {<<i, j>> \in (1..Len(rows)) \X (1..26) : j <= Len(rows[i])}
        Place(c) == CHOOSE p \in places : Coordinate(<<64 + p[2]>>, p[1]) = c
    IN [c \in {Coordinate(<<64 + p[2]>>, p[1]) : p \in places} |->
            rows[Place(c)[1]][Place(c)[2]]]

----------------------------------------------------------------------------
(* The script, lines 208-274 *)

Groups == {"total_returns", "indexes", "bonds", "international_securities",
           "domestic_securities"}

\* the order in which the script makes the five calls of a phase
ScriptOrder == <<"total_returns", "indexes", "bonds",
                 "international_securities", "domestic_securities">>

\* ord(settings['return_start_column'].lower()) - ord('a')
ReturnStartColumn(settings_) == Lower(settings_.return_start_column)[1] - 97

\* the names argument of the get_security_info call of a group
NamesOf(settings_, g) ==
    CASE g = "total_returns" ->
            [i \in 1..Len(settings_.total_return_positions) |->
                settings_.total_return_positions[i].name]
      [] g = "indexes" ->
            [i \in 1..Len(settings_.index_positions) |->
                settings_.index_positions[i].ticker]
      [] g = "bonds" -> settings_.bond_tickers
      [] g = "international_securities" -> settings_.international_security_tickers
      [] g = "domestic_securities" -> settings_.domestic_security_tickers

\* the name_column argument: 3 for the total returns, 2 for the others
NameColumnOf(g) == IF g = "total_returns" THEN 3 ELSE 2

\* next(position for position in comparison_positions
\*      if position['security_set'] == g); <<>> stands for StopIteration
ComparisonPosition(settings_, g) ==
    LET found == SelectSeq(settings_.comparison_positions,
                           LAMBDA position : position.security_set = g)
    IN IF Len(found) = 0 THEN <<>> ELSE <<found[1]>>

\* Faulty variant of WriteGroup: the call writes to the worksheet as the
\* workbook file holds it, so that what earlier calls wrote is lost.
WriteGroup_on_file(ws, settings_, g, list) ==
    LET fresh == CellsOf(summary_workbook.rows)
    IN CASE g = "total_returns" ->
            write_securities(fresh, list, settings_.total_return_positions)
                @@ [securities |-> list]
      [] g = "indexes" ->
            write_securities(fresh, list, settings_.index_positions)
                @@ [securities |-> list]
      [] OTHER ->
            IF ComparisonPosition(settings_, g) = <<>>
            THEN [raised |-> "StopIteration", ws |-> ws, securities |-> list]
            ELSE write_comparison(fresh, list, ComparisonPosition(settings_, g)[1])

\* the write call of a group, lines 258-271: [raised, ws, securities]
WriteGroup(ws, settings_, g, list) ==
    CASE g = "total_returns" ->
            write_securities(ws, list, settings_.total_return_positions)
                @@ [securities |-> list]
      [] g = "indexes" ->
            write_securities(ws, list, settings_.index_positions)
                @@ [securities |-> list]
      [] OTHER ->
            IF ComparisonPosition(settings_, g) = <<>>
            THEN [raised |-> "StopIteration", ws |-> ws, securities |-> list]
            ELSE write_comparison(ws, list, ComparisonPosition(settings_, g)[1])

\* the groups whose call may come next in a phase
Candidates ==
    IF order = "script" THEN {ScriptOrder[Cardinality(calls) + 1]}
    ELSE Groups \ calls

\* no workbook loaded yet
NoWorkbook == [path |-> <<>>, rows |-> <<>>]

harnessVars == <<args, ret>>

\* line 41: input() of the filename; at end of input it raises EOFError
Prompt ==
    /\ pc \in {"prompt_review", "prompt_summary"}
    /\ IF stdin = <<>>
       THEN /\ pc' = "aborted" /\ error' = "EOFError"
            /\ UNCHANGED <<stdin, workbook_filename, typo>>
       ELSE /\ workbook_filename' = Head(stdin) \o Xlsx
            /\ stdin' = Tail(stdin)
            /\ typo' = TRUE
            /\ pc' = IF pc = "prompt_review" THEN "load_review" ELSE "load_summary"
            /\ error' = error
    /\ UNCHANGED <<disk, settings, order, calls, printed, review_workbook,
                   summary_workbook, summary_workbook_filename, review_worksheet,
                   securities, summary_worksheet, saved, nextId, harnessVars>>

\* lines 45-52: the try, and the return once typo is False
Load ==
    /\ pc \in {"load_review", "load_summary"}
    /\ LET path == settings.report_path \o workbook_filename
           outcome == LoadOutcome(disk, path)
           workbook == [path |-> path, rows |-> disk[path].rows]
       IN CASE outcome = "retry" ->
                /\ printed' = printed + 1
                /\ pc' = IF pc = "load_review" THEN "prompt_review" ELSE "prompt_summary"
                /\ UNCHANGED <<typo, review_workbook, summary_workbook,
                               summary_workbook_filename, summary_worksheet, error>>
            [] outcome = "raise" ->
                /\ pc' = "aborted" /\ error' = "InvalidFileException"
                /\ UNCHANGED <<typo, printed, review_workbook, summary_workbook,
                               summary_workbook_filename, summary_worksheet>>
            [] outcome = "loaded" /\ pc = "load_review" ->
                /\ typo' = FALSE
                /\ review_workbook' = workbook
                /\ pc' = "prompt_summary"
                /\ UNCHANGED <<printed, summary_workbook, summary_workbook_filename,
                               summary_worksheet, error>>
            [] outcome = "loaded" /\ pc = "load_summary" ->
                /\ typo' = FALSE
                /\ summary_workbook' = workbook
                /\ summary_workbook_filename' = workbook_filename
                /\ summary_worksheet' = CellsOf(workbook.rows)
                /\ pc' = "read_review"
                /\ UNCHANGED <<printed, review_workbook, error>>
    /\ UNCHANGED <<disk, settings, stdin, order, calls, workbook_filename,
                   review_worksheet, securities, saved, nextId, harnessVars>>

\* lines 232-233: the rows of the review worksheet, as a tuple
ReadReview ==
    /\ pc = "read_review"
    /\ review_worksheet' = review_workbook.rows
    /\ pc' = "extract"
    /\ calls' = {}
    /\ UNCHANGED <<disk, settings, stdin, order, typo, printed, workbook_filename,
                   review_workbook, summary_workbook, summary_workbook_filename,
                   securities, summary_worksheet, saved, error, nextId, harnessVars>>

\* lines 236-250: one of the five get_security_info calls
Extract ==
    /\ pc = "extract"
    /\ \E g \in Candidates :
        \E r \in {get_security_info(review_worksheet, NamesOf(settings, g),
                                     NameColumnOf(g), ReturnStartColumn(settings),
                                     nextId)} :
           IF r.raised # ""
           THEN /\ pc' = "aborted" /\ error' = r.raised
                /\ UNCHANGED <<calls, securities, nextId>>
           ELSE /\ securities' = (g :> r.value) @@ securities
                /\ nextId' = nextId + Len(r.value)
                /\ calls' = IF calls \cup {g} = Groups THEN {} ELSE calls \cup {g}
                /\ pc' = IF calls \cup {g} = Groups THEN "write" ELSE "extract"
                /\ error' = error
    /\ UNCHANGED <<disk, settings, stdin, order, typo, printed, workbook_filename,
                   review_workbook, summary_workbook, summary_workbook_filename,
                   review_worksheet, summary_worksheet, saved, harnessVars>>

\* lines 255-271: one of the five write calls
Write ==
    /\ pc = "write"
    /\ \E g \in Candidates :
        \E r \in {WriteGroup(summary_worksheet, settings, g, securities[g])} :
           /\ summary_worksheet' = r.ws
           /\ securities' = [securities EXCEPT ![g] = r.securities]
           /\ IF r.raised # ""
              THEN /\ pc' = "aborted" /\ error' = r.raised /\ calls' = calls
              ELSE /\ calls' = calls \cup {g}
                   /\ pc' = IF calls \cup {g} = Groups THEN "save" ELSE "write"
                   /\ error' = error
    /\ UNCHANGED <<disk, settings, stdin, order, typo, printed, workbook_filename,
                   review_workbook, summary_workbook, summary_workbook_filename,
                   review_worksheet, saved, nextId, harnessVars>>

\* line 273: summary_workbook.save(report_path + summary_workbook_filename)
Save ==
    /\ pc = "save"
    /\ saved' = <<[path |-> settings.report_path \o summary_workbook_filename,
                   cells |-> summary_worksheet]>>
    /\ pc' = "done"
    /\ UNCHANGED <<disk, settings, stdin, order, calls, typo, printed, workbook_filename,
                   review_workbook, summary_workbook, summary_workbook_filename,
                   review_worksheet, securities, summary_worksheet, error,
                   nextId, harnessVars>>

Next == Prompt \/ Load \/ ReadReview \/ Extract \/ Write \/ Save

----------------------------------------------------------------------------
(* Function harness: get_security_info, write_securities and
   write_comparison applied to arguments drawn from bounded sets *)

MaxRows == 3        \* rows of a review worksheet given to get_security_info
MaxNames == 2       \* names requested from get_security_info
MaxGroup == 2       \* securities written by write_securities / write_comparison

Range(list) == {list[i] : i \in 1..Len(list)}

\* every sequence over S of a length in lo..hi
SeqsOf(S, lo, hi) == UNION {[1..n -> S] : n \in lo..hi}

Text_a == <<97>>
Text_A == <<65>>
Text_b == <<98>>
Text_B == <<66>>
Text_Ab == <<65, 98>>
Text_aB == <<97, 66>>
Text_c == <<99>>
Text_NA == <<78, 47, 65>>

\* the values the return cells of the rows below run through
CellKinds == <<PyInt(1), PyFloat(2), PyStr(Text_NA), PyBool(TRUE), PyNone,
               PyInt(-3), PyStr(Text_a)>>

\* a review row: two leading cells, the ticker in column 2, the name in
\* column 3, seven further cells from column 4 on, running through CellKinds
\* from its k-th
KeyRow(ticker, name, k) ==
    <<PyNone, PyInt(k), ticker, name>>
        \o [j \in 1..7 |-> CellKinds[((k + j - 1) % 7) + 1]]

KeyRows == {KeyRow(PyStr(Text_a), PyStr(Text_Ab), 0),
            KeyRow(PyStr(Text_A), PyStr(Text_b), 1),
            KeyRow(PyStr(Text_B), PyStr(Text_aB), 3),
            KeyRow(PyInt(1), PyNone, 4)}

RequestNames == {Text_a, Text_b, Text_Ab, Text_c}

NoArgs == [worksheet |-> <<>>, names |-> <<>>, name_column |-> 0,
           start_column |-> 0, positions |-> <<>>,
           position |-> [row |-> 0, column |-> <<>>]]

NoRet == [raised |-> "", value |-> <<>>]

\* the state of the script's variables while a function is checked on its own
ScriptIdle ==
    /\ disk = <<>> /\ settings = <<>> /\ stdin = <<>> /\ order = "script"
    /\ calls = {} /\ typo = TRUE /\ printed = 0 /\ workbook_filename = <<>>
    /\ review_workbook = NoWorkbook /\ summary_workbook = NoWorkbook
    /\ summary_workbook_filename = <<>> /\ review_worksheet = <<>>
    /\ securities = <<>> /\ saved = <<>> /\ error = ""

scriptVars == <<disk, settings, stdin, order, calls, typo, printed, workbook_filename,
                review_workbook, summary_workbook, summary_workbook_filename,
                review_worksheet, securities, saved, error>>

InitExtract ==
    /\ ScriptIdle
    /\ pc = "call"
    /\ \E worksheet \in SeqsOf(KeyRows, 0, MaxRows),
          names \in SeqsOf(RequestNames, 0, MaxNames),
          name_column \in {2, 3}, start_column \in {4, 5} :
            args = [NoArgs EXCEPT !.worksheet = worksheet, !.names = names,
                                  !.name_column = name_column,
                                  !.start_column = start_column]
    /\ ret = NoRet
    /\ summary_worksheet = <<>>
    /\ nextId = 0

\* securities = get_security_info(worksheet, names, name_column, start_column)
CallGetSecurityInfo ==
    /\ pc = "call"
    /\ ret' = get_security_info(args.worksheet, args.names, args.name_column,
                                args.start_column, nextId)
    /\ pc' = IF ret'.raised = "" THEN "extracted" ELSE "raised"
    /\ nextId' = nextId + Len(ret'.value)
    /\ UNCHANGED <<scriptVars, summary_worksheet, args>>

NextExtract == CallGetSecurityInfo

SpecExtract == InitExtract /\ [][NextExtract]_vars

\* the six return cells of the rows given to the write functions: such
\* that two rows differ in every metric, tie in some, or tie in all
Pattern1 == <<PyInt(1), PyInt(2), PyInt(3), PyInt(4), PyInt(5), PyInt(6)>>
Pattern2 == <<PyInt(9), PyInt(8), PyInt(7), PyInt(6), PyFloat(5), PyInt(4)>>
Pattern3 == <<PyFloat(0), PyFloat(2), PyStr(Text_NA), PyInt(7), PyBool(TRUE), PyInt(-1)>>

Patterns == {Pattern1, Pattern2, Pattern3}

Text_AAA == <<65, 65, 65>>
Text_BBB == <<66, 66, 66>>
Text_CCC == <<67, 67, 67>>

ValueRow(ticker, pattern) == <<PyNone, PyNone, PyStr(ticker), PyNone>> \o pattern

ValueSheets ==
    {<<ValueRow(Text_AAA, p1), ValueRow(Text_BBB, p2), ValueRow(Text_CCC, p3)>> :
        p1 \in Patterns, p2 \in Patterns, p3 \in Patterns}

Tickers == {Lower(Text_AAA), Lower(Text_BBB), Lower(Text_CCC)}

Column_A == <<65>>
Column_W == <<87>>

\* position lists for n securities: side by side, one below the other, and
\* overlapping (each one row below the one before)
Layouts(n) ==
    {[i \in 1..n |-> [row |-> 2, column |-> <<65 + i>>]],
     [i \in 1..n |-> [row |-> 6 * i - 5, column |-> Column_A]],
     [i \in 1..n |-> [row |-> 8 + i, column |-> Column_W]]}

\* a summary worksheet with a cell already filled in
FilledSheet == (Coordinate(Column_A, 1) :> PyStr(Text_NA))

InitWith(worksheets, lo, columns, rows) ==
    /\ ScriptIdle
    /\ pc = "call"
    /\ \E worksheet \in worksheets, names \in SeqsOf(Tickers, lo, MaxGroup),
          column \in columns, row \in rows :
        \E positions \in Layouts(Len(names)) :
            args = [worksheet |-> worksheet, names |-> names, name_column |-> 2,
                    start_column |-> 4, positions |-> positions,
                    position |-> [row |-> row, column |-> column]]
    /\ ret = NoRet
    /\ summary_worksheet = FilledSheet
    /\ nextId = 0

InitWrite == InitWith(ValueSheets, 0, {Column_A, Column_W}, {1, 9})

\* write_securities(summary_worksheet, securities, positions)
CallWriteSecurities ==
    /\ pc = "extracted"
    /\ \E r \in {write_securities(summary_worksheet, ret.value, args.positions)} :
          /\ summary_worksheet' = r.ws
          /\ ret' = [ret EXCEPT !.raised = r.raised]
          /\ pc' = IF r.raised = "" THEN "written_securities" ELSE "raised"
    /\ UNCHANGED <<scriptVars, args, nextId>>

\* write_comparison(summary_worksheet, securities, position): the list is
\* sorted in place
CallWriteComparison ==
    /\ pc = "extracted"
    /\ \E r \in {write_comparison(summary_worksheet, ret.value, args.position)} :
          /\ summary_worksheet' = r.ws
          /\ ret' = [raised |-> r.raised, value |-> r.securities]
          /\ pc' = IF r.raised = "" THEN "written_comparison" ELSE "raised"
    /\ UNCHANGED <<scriptVars, args, nextId>>

NextWrite == CallGetSecurityInfo \/ CallWriteSecurities \/ CallWriteComparison

SpecWrite == InitWrite /\ [][NextWrite]_vars

\* the write functions again, on two worksheets and every anchor column A..Z
Letters == {<<c>> : c \in 65..90}

InitColumns ==
    InitWith({<<ValueRow(Text_AAA, Pattern1), ValueRow(Text_BBB, Pattern2),
                ValueRow(Text_CCC, Pattern3)>>,
              <<ValueRow(Text_AAA, Pattern3), ValueRow(Text_BBB, Pattern3),
                ValueRow(Text_CCC, Pattern1)>>},
             1, Letters, {1, 9})

SpecColumns == InitColumns /\ [][NextWrite]_vars

----------------------------------------------------------------------------
(* The run of the script: files, settings and what the user types *)

MaxInput == 3       \* lines the user types

Text_zzz == <<122, 122, 122>>
ReportPath == <<114, 47>>
Stem_r == <<114>>
Stem_s == <<115>>
Stem_x == <<120>>
Stem_m == <<109>>
Stems == {Stem_r, Stem_s, Stem_x, Stem_m}

\* rows as wide as the worksheet (a worksheet's rows all have its width):
\* ticker in column C, name in column D, the returns from column E on
ReviewRows ==
    <<<<PyNone, PyNone, PyStr(Text_AAA), PyStr(Text_Ab)>> \o Pattern1,
      <<PyNone, PyNone, PyStr(Text_BBB), PyStr(Text_b)>> \o Pattern2,
      <<PyNone, PyNone, PyStr(Text_CCC), PyStr(Text_A)>> \o Pattern3,
      <<PyNone, PyNone, PyStr(Lower(Text_AAA)), PyStr(Text_aB)>> \o Pattern3>>

SummaryRows ==
    <<<<PyStr(Text_NA), PyNone, PyNone, PyNone, PyNone,
        PyNone, PyNone, PyNone, PyNone, PyNone>>>>

\* r.xlsx is a review workbook, s.xlsx a summary workbook, x.xlsx a file
\* that is no workbook; there is no m.xlsx
Files ==
    (ReportPath \o Stem_r \o Xlsx :> [status |-> "ok", rows |-> ReviewRows])
    @@ (ReportPath \o Stem_s \o Xlsx :> [status |-> "ok", rows |-> SummaryRows])
    @@ (ReportPath \o Stem_x \o Xlsx :> [status |-> "invalid", rows |-> <<>>])

Column_B == <<66>>
Column_C == <<67>>
Column_E == <<69>>
Column_G == <<71>>

TotalReturnsFound ==
    <<[name |-> Lower(Text_Ab), row |-> 1, column |-> Column_A],
      [name |-> Text_B, row |-> 1, column |-> Column_B]>>
TotalReturnsMissing ==
    <<[name |-> Lower(Text_Ab), row |-> 1, column |-> Column_A],
      [name |-> Text_zzz, row |-> 1, column |-> Column_B]>>
IndexesFound == <<[ticker |-> Lower(Text_BBB), row |-> 7, column |-> Column_A]>>
IndexesOverlapping == <<[ticker |-> Lower(Text_BBB), row |-> 1, column |-> Column_A]>>
IndexesMissing == <<[ticker |-> Text_zzz, row |-> 7, column |-> Column_A]>>
BondsFound == <<Lower(Text_AAA), Text_BBB>>
BondsMissing == <<Text_zzz, Lower(Text_AAA)>>
InternationalFound == <<Lower(Text_BBB), Lower(Text_CCC)>>
InternationalMissing == <<Lower(Text_BBB), Text_zzz>>
DomesticFound == <<Lower(Text_CCC), Lower(Text_AAA), Lower(Text_BBB)>>
DomesticMissing == <<Text_zzz>>
ComparisonsApart ==
    <<[security_set |-> "bonds", row |-> 1, column |-> Column_C],
      [security_set |-> "international_securities", row |-> 1, column |-> Column_G],
      [security_set |-> "domestic_securities", row |-> 7, column |-> Column_C]>>
ComparisonsOverlapping ==
    <<[security_set |-> "bonds", row |-> 1, column |-> Column_C],
      [security_set |-> "international_securities", row |-> 1, column |-> Column_E],
      [security_set |-> "domestic_securities", row |-> 7, column |-> Column_C]>>

SettingsOf(total, indexes, bonds, international, domestic, comparisons) ==
    [report_path |-> ReportPath, return_start_column |-> Column_E,
     bond_tickers |-> bonds, international_security_tickers |-> international,
     domestic_security_tickers |-> domestic, total_return_positions |-> total,
     index_positions |-> indexes, comparison_positions |-> comparisons]

BaseSettings ==
    SettingsOf(TotalReturnsFound, IndexesFound, BondsFound, InternationalFound,
               DomesticFound, ComparisonsApart)

\* the settings of a run: every name found; a name missing from one group,
\* for each group, or from two; no bonds at all; positions that overlap
RunSettings ==
    {BaseSettings,
     [BaseSettings EXCEPT !.total_return_positions = TotalReturnsMissing],
     [BaseSettings EXCEPT !.index_positions = IndexesMissing],
     [BaseSettings EXCEPT !.bond_tickers = BondsMissing],
     [BaseSettings EXCEPT !.international_security_tickers = InternationalMissing],
     [BaseSettings EXCEPT !.domestic_security_tickers = DomesticMissing],
     [BaseSettings EXCEPT !.bond_tickers = BondsMissing,
                          !.domestic_security_tickers = DomesticMissing],
     [BaseSettings EXCEPT !.bond_tickers = <<>>],
     [BaseSettings EXCEPT !.index_positions = IndexesOverlapping],
     [BaseSettings EXCEPT !.comparison_positions = ComparisonsOverlapping]}

\* the state after line 223
InitRun(settingses, inputs, orders) ==
    /\ pc = "prompt_review"
    /\ disk = Files
    /\ settings \in settingses
    /\ stdin \in inputs
    /\ order \in orders
    /\ calls = {}
    /\ typo = TRUE
    /\ printed = 0
    /\ workbook_filename = <<>>
    /\ review_workbook = NoWorkbook
    /\ summary_workbook = NoWorkbook
    /\ summary_workbook_filename = <<>>
    /\ review_worksheet = <<>>
    /\ securities = <<>>
    /\ summary_worksheet = CellsOf(<<>>)
    /\ saved = <<>>
    /\ error = ""
    /\ nextId = 0
    /\ args = NoArgs
    /\ ret = NoRet

Init == InitRun(RunSettings, SeqsOf(Stems, 0, MaxInput), {"script"})

Spec == Init /\ [][Next]_vars

\* the program runs on once the user has typed: a load that is due is made
SpecFair == Spec /\ WF_vars(Load)

\* the five calls of each phase in any order
InitAnyOrder ==
    InitRun({BaseSettings,
             [BaseSettings EXCEPT !.international_security_tickers = InternationalMissing],
             [BaseSettings EXCEPT !.bond_tickers = <<>>],
             [BaseSettings EXCEPT !.index_positions = IndexesOverlapping],
             [BaseSettings EXCEPT !.comparison_positions = ComparisonsOverlapping]},
            {<<Stem_m, Stem_r, Stem_s>>}, {"any"})

SpecAnyOrder == InitAnyOrder /\ [][Next]_vars

----------------------------------------------------------------------------
(* Properties of get_security_info (SpecExtract) *)

\* the rows whose key cell is a string equal to name, letter case ignored
MatchingRows(worksheet, name, name_column) ==
    {j \in 1..Len(worksheet) :
        /\ CellValue(worksheet[j], name_column).type = "str"
        /\ Lower(CellValue(worksheet[j], name_column).text) = Lower(name)}

FirstMatchingRow(worksheet, name, name_column) ==
    CHOOSE j \in MatchingRows(worksheet, name, name_column) :
        \A k \in MatchingRows(worksheet, name, name_column) : j <= k

\* the six return fields of a record, as values only
Returns(security) == [k \in 1..6 |-> security[Metrics[k]]]

\* the key column of a worksheet with the text of its strings upper-cased
UpperKeys(worksheet, name_column) ==
    [i \in 1..Len(worksheet) |->
        [c \in 1..Len(worksheet[i]) |->
            IF c = name_column + 1 /\ worksheet[i][c].type = "str"
            THEN PyStr(Upper(worksheet[i][c].text))
            ELSE worksheet[i][c]]]

\* C1: when every name has a match, get_security_info returns one record
\* per name, in the order of names; the i-th is named names[i] upper-cased
\* and holds the returns of the first row, in scan order, whose key cell is
\* a string equal to names[i] with letter case ignored; upper- or
\* lower-casing the requested names or the key cells changes nothing.
C1_FirstMatchInOrder ==
    pc = "extracted" =>
        /\ Len(ret.value) = Len(args.names)
        /\ \A i \in 1..Len(args.names) :
            LET row == args.worksheet[FirstMatchingRow(args.worksheet, args.names[i],
                                                       args.name_column)]
            IN /\ ret.value[i].name = Upper(args.names[i])
               /\ Returns(ret.value[i]) =
                    [k \in 1..6 |-> ReturnValue(CellValue(row, args.start_column + k - 1))]
        /\ \A names \in {[i \in 1..Len(args.names) |-> Upper(args.names[i])],
                          [i \in 1..Len(args.names) |-> Lower(args.names[i])]} :
            \A worksheet \in {args.worksheet, UpperKeys(args.worksheet, args.name_column)} :
                get_security_info(worksheet, names, args.name_column,
                                  args.start_column, 0) = [ret EXCEPT !.raised = ""]

\* two requested names, the second matching two rows whose key cells differ
\* in letter case from each other, and the first of them from the name
C1_Witness ==
    /\ pc = "extracted"
    /\ Len(args.names) = 2
    /\ args.names[1] # args.names[2]
    /\ Cardinality(MatchingRows(args.worksheet, args.names[2], args.name_column)) = 2
    /\ CellValue(args.worksheet[FirstMatchingRow(args.worksheet, args.names[2],
                                                 args.name_column)],
                 args.name_column).text # args.names[2]
    /\ Cardinality({CellValue(args.worksheet[j], args.name_column) :
            j \in MatchingRows(args.worksheet, args.names[2], args.name_column)}) = 2

\* C2: the j-th return field of a record comes from the cell at column
\* start_column + j of the row resolved for its name: the cell value itself,
\* type included, when that is an int or a float, and exactly the float 0.0
\* when it is a str, a bool or None.
C2_NumericOrZero ==
    pc = "extracted" =>
        \A i \in 1..Len(args.names) : \A j \in 0..5 :
            LET row == args.worksheet[FirstMatchingRow(args.worksheet, args.names[i],
                                                       args.name_column)]
                cell == CellValue(row, args.start_column + j)
                field == ret.value[i][Metrics[j + 1]]
            IN /\ cell.type \in {"int", "float"} => field = cell
               /\ cell.type \in {"str", "bool", "NoneType"} =>
                    field = [type |-> "float", text |-> <<>>, num |-> 0]

\* a record whose six source cells hold an int, a float, a str, a bool and
\* None
C2_Witness ==
    /\ pc = "extracted"
    /\ \E i \in 1..Len(args.names) :
        LET row == args.worksheet[FirstMatchingRow(args.worksheet, args.names[i],
                                                   args.name_column)]
        IN {CellValue(row, args.start_column + j).type : j \in 0..5} =
                {"int", "float", "str", "bool", "NoneType"}

\* C3: when some requested name has no match in the key column the call
\* raises the lookup error (ValueError) and returns no list, wherever the
\* name stands in the list and whatever the other names match.
C3_MissingNameRaises ==
    (pc # "call" /\ \E i \in 1..Len(args.names) :
                        MatchingRows(args.worksheet, args.names[i], args.name_column) = {})
        => pc = "raised" /\ ret.raised = "ValueError" /\ Len(ret.value) = 0

\* the call has raised on a list whose first name has a match and whose
\* last name has none
C3_Witness ==
    /\ pc = "raised"
    /\ Len(args.names) = 2
    /\ MatchingRows(args.worksheet, args.names[1], args.name_column) # {}
    /\ MatchingRows(args.worksheet, args.names[2], args.name_column) = {}

----------------------------------------------------------------------------
(* Properties of write_comparison and write_securities (SpecWrite) *)

\* the list get_security_info returned, in the order of the names
InputList ==
    get_security_info(args.worksheet, args.names, args.name_column,
                      args.start_column, 0).value

Key(security, m) == security[Metrics[m]].num

\* the four cells of row position.row + m - 1 that the comparison fills:
\* the columns are the anchor letter and the three letters after it
ComparisonCell(k, m) ==
    <<args.position.column[1] + k>> \o DecStr(args.position.row + m - 1)

HoldsAt(k, m, value) ==
    /\ ComparisonCell(k, m) \in DOMAIN summary_worksheet
    /\ summary_worksheet[ComparisonCell(k, m)] = value

PairwiseDistinct(list) ==
    \A m \in 1..6 : \A i, j \in 1..Len(list) : i # j => Key(list[i], m) # Key(list[j], m)

\* C4: on a non-empty list whose values are pairwise distinct within each
\* metric and an anchor column of A..W, row position.row + m holds, for each
\* metric m: the name of the record with the greatest value of m in the
\* anchor column, that value in the next column, the name of the record with
\* the least value two columns and that value three columns after the anchor.
C4_BestAndWorst ==
    (/\ pc = "written_comparison"
     /\ PairwiseDistinct(InputList)
     /\ args.position.column[1] \in 65..87)
        => \A m \in 1..6 :
            LET best == CHOOSE x \in Range(InputList) :
                            \A y \in Range(InputList) : Key(y, m) <= Key(x, m)
                worst == CHOOSE x \in Range(InputList) :
                            \A y \in Range(InputList) : Key(x, m) <= Key(y, m)
            IN /\ HoldsAt(0, m, PyStr(best.name))
               /\ HoldsAt(1, m, best[Metrics[m]])
               /\ HoldsAt(2, m, PyStr(worst.name))
               /\ HoldsAt(3, m, worst[Metrics[m]])

\* a comparison written for two records that differ in every metric, the
\* best being the first of the list for one metric and the second for another
C4_Witness ==
    /\ pc = "written_comparison"
    /\ Len(InputList) = 2
    /\ PairwiseDistinct(InputList)
    /\ \E m, n \in 1..6 : /\ Key(InputList[1], m) < Key(InputList[2], m)
                           /\ Key(InputList[1], n) > Key(InputList[2], n)

\* the stable ascending sort of a list by metric m, stated rather than
\* computed: the arrangement of the list that is ascending in m and keeps
\* the records of equal value in the order they had
StableSorted(list, m) ==
    LET n == Len(list)
        f == CHOOSE g \in [1..n -> 1..n] :
                /\ \A i, j \in 1..n : i # j => g[i] # g[j]
                /\ \A i, j \in 1..n : i < j =>
                        \/ Key(list[g[i]], m) < Key(list[g[j]], m)
                        \/ Key(list[g[i]], m) = Key(list[g[j]], m) /\ g[i] < g[j]
    IN [i \in 1..n |-> list[f[i]]]

\* the order of the list when the block of metric m begins: the order given
\* for year-to-date, then the order the block before left
RECURSIVE OrderBefore(_)
OrderBefore(m) == IF m = 1 THEN InputList ELSE StableSorted(OrderBefore(m - 1), m - 1)

\* of the records of list with the greatest value of metric m, the last
LastOfGreatest(list, m) ==
    list[CHOOSE i \in 1..Len(list) :
            /\ \A j \in 1..Len(list) : Key(list[j], m) <= Key(list[i], m)
            /\ \A j \in (i + 1)..Len(list) : Key(list[j], m) < Key(list[i], m)]

\* of the records of list with the least value of metric m, the first
FirstOfLeast(list, m) ==
    list[CHOOSE i \in 1..Len(list) :
            /\ \A j \in 1..Len(list) : Key(list[i], m) <= Key(list[j], m)
            /\ \A j \in 1..(i - 1) : Key(list[i], m) < Key(list[j], m)]

\* the cells of the metrics m..6, order being the order of the list when
\* the block of metric m begins
RECURSIVE TieBreakFrom(_, _)
TieBreakFrom(order_, m) ==
    \/ m > 6
    \/ \A list \in {order_} :
       /\ HoldsAt(0, m, PyStr(LastOfGreatest(list, m).name))
       /\ HoldsAt(1, m, LastOfGreatest(list, m)[Metrics[m]])
       /\ HoldsAt(2, m, PyStr(FirstOfLeast(list, m).name))
       /\ HoldsAt(3, m, FirstOfLeast(list, m)[Metrics[m]])
       /\ TieBreakFrom(StableSorted(list, m), m + 1)

\* C9: for each metric the record written as best is, of the records with
\* the greatest value, the one standing last in the order the list has when
\* that metric's sort begins, and the record written as worst is, of the
\* records with the least value, the one standing first in that order
\* (which is where a stable ascending sort puts them); that order is the
\* order given for year-to-date and, for each later metric, the stable
\* ascending sort by the metric before of the order before.
C9_TieBreak ==
    pc = "written_comparison" => TieBreakFrom(InputList, 1)

\* a comparison written where two records of different names tie on a
\* metric after the first, and an earlier sort has exchanged them
C9_Witness ==
    /\ pc = "written_comparison"
    /\ \E m \in 2..6 :
        LET list == OrderBefore(m)
        IN /\ Len(list) = 2
           /\ list[1].name # list[2].name
           /\ Key(list[1], m) = Key(list[2], m)
           /\ list # InputList

\* the cell of the k-th metric of the i-th position
SecurityCell(i, k) ==
    args.positions[i].column \o DecStr(args.positions[i].row + k - 1)

\* C5: with as many positions as records, write_securities leaves in the
\* cell of column positions[i].column and row positions[i].row + k the k-th
\* metric (in the order ytd, mtd, qtd, 1y, 3y, 5y) of records[i], for every
\* index i, also when several records carry the same name and values; where
\* the cells of two positions coincide the later record's value stands; no
\* other cell changes.
C5_PairedByIndex ==
    (pc = "written_securities" /\ Len(args.positions) = Len(ret.value)) =>
        /\ \A i \in 1..Len(ret.value) : \A k \in 1..6 :
            LET c == SecurityCell(i, k)
                last == CHOOSE p \in (1..Len(ret.value)) \X (1..6) :
                            /\ SecurityCell(p[1], p[2]) = c
                            /\ \A q \in (1..Len(ret.value)) \X (1..6) :
                                    SecurityCell(q[1], q[2]) = c => q[1] <= p[1]
            IN /\ c \in DOMAIN summary_worksheet
               /\ summary_worksheet[c] = ret.value[last[1]][Metrics[last[2]]]
        /\ \A c \in DOMAIN summary_worksheet :
                \/ \E i \in 1..Len(ret.value), k \in 1..6 : c = SecurityCell(i, k)
                \/ c \in DOMAIN FilledSheet /\ summary_worksheet[c] = FilledSheet[c]

\* two records of the same name and the same six values, not all of them
\* equal, written to positions with no cell in common
C5_Witness ==
    /\ pc = "written_securities"
    /\ Len(ret.value) = 2
    /\ [ret.value[1] EXCEPT !.id = 0] = [ret.value[2] EXCEPT !.id = 0]
    /\ Key(ret.value[1], 1) # Key(ret.value[1], 2)
    /\ \A k, l \in 1..6 : SecurityCell(1, k) # SecurityCell(2, l)
    /\ \A k \in 1..6 : summary_worksheet[SecurityCell(2, k)] = ret.value[2][Metrics[k]]

----------------------------------------------------------------------------
(* The columns of write_comparison (SpecColumns) *)

\* the coordinates write_comparison has subscripted: the summary worksheet
\* held FilledSheet before, and every cell written holds a name or a number
CellsWritten ==
    {c \in DOMAIN summary_worksheet :
        c \notin DOMAIN FilledSheet \/ summary_worksheet[c] # FilledSheet[c]}

ComparisonRows == {args.position.row + m - 1 : m \in 1..6}

\* C7 as stated: for every anchor column A..Z, X, Y and Z included, every
\* cell write_comparison writes is addressed by one letter of A..Z followed
\* by the row number.
C7_SingleLetterForEveryAnchor ==
    pc = "written_comparison" =>
        \A c \in CellsWritten :
            /\ c[1] \in 65..90
            /\ \E row \in ComparisonRows : Tail(c) = DecStr(row)

\* C7 as amended: the four columns are the characters whose codes are the
\* anchor's code plus 0, 1, 2 and 3, with no wrapping; so every cell written
\* is addressed by one letter of A..Z followed by the row number when the
\* anchor is one of A..W, and for the anchors X, Y and Z the last one, two
\* or three columns are the characters that follow Z.
C7_ColumnsByCharacterCode ==
    pc = "written_comparison" =>
        /\ CellsWritten =
            {<<args.position.column[1] + k>> \o DecStr(row) :
                k \in 0..3, row \in ComparisonRows}
        /\ args.position.column[1] \in 65..87 =>
            \A c \in CellsWritten :
                /\ c[1] \in 65..90
                /\ \E row \in ComparisonRows : Tail(c) = DecStr(row)
        /\ args.position.column[1] \in 88..90 =>
            \E c \in CellsWritten : c[1] = 91

\* a comparison written at the anchor W, whose last column is Z, on rows
\* with two digits
C7_Witness ==
    /\ pc = "written_comparison"
    /\ args.position.column = Column_W
    /\ <<90, 49, 52>> \in CellsWritten

----------------------------------------------------------------------------
(* Properties of the run (Spec, SpecFair, SpecAnyOrder) *)

AnyNameMissing ==
    \E g \in Groups : \E i \in 1..Len(NamesOf(settings, g)) :
        MatchingRows(review_worksheet, NamesOf(settings, g)[i], NameColumnOf(g)) = {}

\* C6: once the review sheet is read, if a name of any of the five groups is
\* missing from it the run never gets past the extractions: it ends with the
\* lookup error (ValueError), no cell of the summary worksheet written and
\* nothing saved. Every write comes after all five extractions and the save
\* after all five writes.
C6_AbortBeforeAnyWrite ==
    /\ (Len(review_worksheet) > 0 /\ AnyNameMissing) =>
            /\ pc \in {"extract", "aborted"}
            /\ pc = "aborted" => error = "ValueError"
            /\ summary_worksheet = CellsOf(summary_workbook.rows)
            /\ saved = <<>>
    /\ (pc \in {"write", "save", "done"}
            \/ summary_worksheet # CellsOf(summary_workbook.rows)) =>
            DOMAIN securities = Groups
    /\ saved # <<>> =>
            /\ pc = "done" /\ calls = Groups
            /\ saved[1].cells = summary_worksheet

\* the run has ended with the lookup error on the last group, the other
\* four extractions done
C6_Witness ==
    /\ pc = "aborted" /\ error = "ValueError"
    /\ DOMAIN securities = Groups \ {"domestic_securities"}
    /\ \A g \in Groups \ {"domestic_securities"} : Len(securities[g]) > 0
    /\ summary_worksheet = CellsOf(SummaryRows)

\* a workbook object is what load_workbook made of an existing workbook file
LoadedFromFile(workbook) ==
    /\ workbook.path \in DOMAIN disk
    /\ disk[workbook.path].status = "ok"
    /\ workbook.rows = disk[workbook.path].rows

LoadDue(p) == pc = p /\ settings.report_path \o workbook_filename \in DOMAIN disk
                     /\ disk[settings.report_path \o workbook_filename].status = "ok"

\* what a step taken at the load must do
LoadStep ==
    pc \in {"load_review", "load_summary"} =>
        LET path == settings.report_path \o workbook_filename
        IN IF path \notin DOMAIN disk
           THEN /\ pc' = (IF pc = "load_review" THEN "prompt_review" ELSE "prompt_summary")
                /\ error' = "" /\ printed' = printed + 1
                /\ review_workbook' = review_workbook
                /\ summary_workbook' = summary_workbook
           ELSE IF disk[path].status = "ok"
           THEN /\ pc' = (IF pc = "load_review" THEN "prompt_summary" ELSE "read_review")
                /\ pc = "load_review" => review_workbook'.path = path
                /\ pc = "load_summary" =>
                        /\ summary_workbook'.path = path
                        /\ summary_workbook_filename' = workbook_filename
           ELSE pc' = "aborted" /\ error' # ""

\* what a step taken at the prompt must do when the user types a line
PromptStep ==
    (pc \in {"prompt_review", "prompt_summary"} /\ stdin # <<>>) =>
        workbook_filename' = Head(stdin) \o Xlsx

\* C10: read_workbook prompts again after every filename that is no file
\* and does not end the run for it; what it returns is a workbook loaded
\* from an existing workbook file, with the filename typed at the last
\* prompt; a filename of a workbook file, once typed, makes the call return;
\* any other failure of the load ends the run with no further prompt.
C10_ReadWorkbook ==
    /\ [](/\ review_workbook # NoWorkbook => LoadedFromFile(review_workbook)
          /\ summary_workbook # NoWorkbook =>
                /\ LoadedFromFile(summary_workbook)
                /\ summary_workbook.path = settings.report_path \o summary_workbook_filename)
    /\ [][LoadStep]_vars
    /\ [][PromptStep]_vars
    /\ (LoadDue("load_review") ~> review_workbook # NoWorkbook)
    /\ (LoadDue("load_summary") ~> summary_workbook # NoWorkbook)

\* both workbooks returned, the summary workbook after a filename that is no
\* file
C10_Witness ==
    /\ pc = "read_review"
    /\ printed > 0
    /\ workbook_filename = Stem_s \o Xlsx
    /\ summary_workbook_filename = workbook_filename
    /\ review_workbook.path = ReportPath \o Stem_r \o Xlsx

\* The run as the script makes it, computed: the five extractions, then the
\* five writes, in the order of ScriptOrder; [error, ws].
RECURSIVE ScriptExtractFrom(_, _, _)
ScriptExtractFrom(i, id0, lists) ==
    IF i > Len(ScriptOrder) THEN [raised |-> "", securities |-> lists]
    ELSE Bind(get_security_info(review_worksheet, NamesOf(settings, ScriptOrder[i]),
                                NameColumnOf(ScriptOrder[i]),
                                ReturnStartColumn(settings), id0),
              LAMBDA r : IF r.raised # ""
                         THEN [raised |-> r.raised, securities |-> lists]
                         ELSE ScriptExtractFrom(i + 1, id0 + Len(r.value),
                                                (ScriptOrder[i] :> r.value) @@ lists))

RECURSIVE ScriptWriteFrom(_, _, _)
ScriptWriteFrom(i, ws, lists) ==
    IF i > Len(ScriptOrder) THEN [error |-> "", ws |-> ws]
    ELSE Bind(WriteGroup(ws, settings, ScriptOrder[i], lists[ScriptOrder[i]]),
              LAMBDA r : IF r.raised # ""
                         THEN [error |-> r.raised, ws |-> r.ws]
                         ELSE ScriptWriteFrom(i + 1, r.ws, lists))

ScriptResult ==
    Bind(ScriptExtractFrom(1, 0, <<>>),
         LAMBDA e : IF e.raised # ""
                    THEN [error |-> e.raised, ws |-> CellsOf(summary_workbook.rows)]
                    ELSE ScriptWriteFrom(1, CellsOf(summary_workbook.rows), e.securities))

\* the cells a write call addresses, from the settings
TargetCells(g) ==
    CASE g = "total_returns" ->
            {p.column \o DecStr(p.row + k) :
                p \in Range(settings.total_return_positions), k \in 0..5}
      [] g = "indexes" ->
            {p.column \o DecStr(p.row + k) :
                p \in Range(settings.index_positions), k \in 0..5}
      [] OTHER ->
            {<<p.column[1] + j>> \o DecStr(p.row + k) :
                p \in {q \in Range(settings.comparison_positions) : q.security_set = g},
                j \in 0..3, k \in 0..5}

TargetsApart ==
    \A g, h \in Groups : g # h => TargetCells(g) \cap TargetCells(h) = {}

WithoutIds(list) == [i \in 1..Len(list) |-> [list[i] EXCEPT !.id = 0]]

ExtractedAlone(g) ==
    WithoutIds(get_security_info(review_worksheet, NamesOf(settings, g),
                                 NameColumnOf(g), ReturnStartColumn(settings), 0).value)

====
